---- MODULE Spec2Model ----
(***************************************************************************)
(* ai-index: section resolution (explicit region scanner, auto-detection   *)
(* scanner, companion parser, fallback), the embedded index block codec    *)
(* and the verifier.                                                       *)
(*                                                                         *)
(* Text is modelled as tokens.  A token is a string standing for one       *)
(* character (" ", "|", "a", "7") or for a fixed piece of source text that *)
(* the regular expressions of the program treat as a unit ("//#region",    *)
(* "import x", "Section").  A line is a sequence of tokens, a file is the  *)
(* sequence of its lines (content.split('\n')), a name is a sequence of    *)
(* tokens.                                                                 *)
(***************************************************************************)
EXTENDS Integers, Sequences, FiniteSets, TLC

VARIABLES
  ext,        \* language key of the file's extension ("ts"), "none" when unregistered
  lines,      \* the file on disk: content.split('\n')
  companion,  \* the companion documents at the three candidate paths
  pc,         \* the operation that produced `out`
  out,        \* the result of the last operation
  before,     \* the content the last operation read (its local `content`)
  writes,     \* the number of writeFile calls so far
  batch,      \* a run of the CLI's main over several files
  secs,       \* codec: the section list handed to generateIndex
  total,      \* codec: the totalLines handed to generateIndex
  block,      \* codec: the serialized block (lines)
  parsed,     \* codec: parseIndex's result
  inflight    \* an operation between its readFile and its writeFile or return

vars == <<ext, lines, companion, pc, out, before, writes, batch, secs, total, block, parsed, inflight>>

(***************************************************************************)
(* Bounds                                                                  *)
(***************************************************************************)
\* SpecScan: the longest file handed to the scanners
MaxLines == 4

\* Spec: the longest file
MaxFileLines == 3

\* Spec: the rows of a companion table and the line numbers written in them
MaxRows == 2

MaxCompLine == 2

\* Spec: the writes to the file in one run, and the --min-lines option tried
MaxWrites == 2

MinLinesOpt == 3

\* SpecCodec: the tokens of a name, the line numbers of a section, a number
\* wider than the columns
MaxNameToks == 2

MaxSecLine == 2

BigLine == 12345

\* SpecVerify: the code lines after the block, the line numbers stored in it
MaxCodeLines == 3

MaxStoredLine == 18

(***************************************************************************)
(* Generic helpers                                                         *)
(***************************************************************************)
SeqsUpTo(S, n) == UNION {[1..k -> S] : k \in 1..n}

SetMin(S) == CHOOSE x \in S : \A y \in S : x <= y

SetMax(S) == CHOOSE x \in S : \A y \in S : x >= y

IsWs(t) == t \in {" ", "\n"}

\* [\u2014\-] : the em dash is the token "emdash"
IsDash(t) == t \in {"-", "emdash"}

\* String.prototype.trim on a token sequence
Trim(s) ==
  LET keep == {i \in 1..Len(s) : ~IsWs(s[i])}
  IN IF keep = {} THEN <<>> ELSE SubSeq(s, SetMin(keep), SetMax(keep))

(***************************************************************************)
(* Representative source lines of a TypeScript file                        *)
(***************************************************************************)
NameA == <<"a">>
NameB == <<"b">>

RegionLine(nm) == <<"//#region", " ">> \o nm
EndRegionLine == <<"//#endregion">>
MarkerLine(nm) == <<"// SECTION:", " ">> \o nm
ImportLine == <<"import x">>
TypeLine == <<"export type T">>
ClassLine == <<"export class K">>
CodeLine == <<"x = 1">>
EmptyLine == <<>>

(***************************************************************************)
(* Language profiles: the regular expressions, on token lines              *)
(***************************************************************************)
\* detectLanguage / getLanguagePlugin: the registry has a profile for the key
Registered(lang) == lang = "ts"

\* /^\/\/#region\s+(.+?)(?:\s*[\u2014\-]\s*(.+))?$/ : <<>> when the line does not
\* match, else <<[name, desc]>> with both groups trimmed
RegionStartMatch(line) ==
  IF Len(line) < 3 \/ line[1] # "//#region" \/ ~IsWs(line[2]) THEN <<>>
  ELSE
    LET nonWs == {i \in 3..Len(line) : ~IsWs(line[i])}
        p == IF nonWs = {} THEN Len(line) ELSE SetMin(nonWs)
        body == SubSeq(line, p, Len(line))
        \* the lazy name stops at the first k after which \s*[\u2014-]\s*(.+) matches
        K == {k \in 1..(Len(body) - 2) :
                \E d \in (k + 1)..(Len(body) - 1) :
                   /\ IsDash(body[d])
                   /\ \A j \in (k + 1)..(d - 1) : IsWs(body[j])}
    IN IF K = {} THEN <<[name |-> Trim(body), desc |-> <<>>]>>
       ELSE LET k == SetMin(K)
                d == SetMin({x \in (k + 1)..(Len(body) - 1) : IsDash(body[x])})
            IN <<[name |-> Trim(SubSeq(body, 1, k)),
                  desc |-> Trim(SubSeq(body, d + 1, Len(body)))]>>

\* /^\/\/#endregion/
RegionEndMatch(line) == Len(line) >= 1 /\ line[1] = "//#endregion"

\* /\/\/\s*(?:={3,}\s*)?SECTION:\s*(.+?)(?:\s*={3,})?\s*$/i : <<>> or <<name>>
SectionMarkerMatch(line) ==
  LET at == {i \in 1..(Len(line) - 1) : line[i] = "// SECTION:"}
  IN IF at = {} THEN <<>>
     ELSE <<Trim(SubSeq(line, SetMin(at) + 1, Len(line)))>>

\* mcp-server: LANGUAGE_CONFIG[lang].regionStart applied to a line
ServerRegionStart(lang, line) ==
  IF Registered(lang) THEN RegionStartMatch(line) ELSE <<>>

\* mcp-server: LANGUAGE_CONFIG[lang].regionEnd applied to a line
ServerRegionEnd(lang, line) == Registered(lang) /\ RegionEndMatch(line)

\* mcp-server detectSectionsAuto: the first pattern of patterns[lang] matching
\* the line, <<>> when none does
ServerAutoMatch(lang, line) ==
  IF ~Registered(lang) \/ Len(line) = 0 THEN <<>>
  ELSE CASE line[1] = "import x" -> <<[name |-> <<"imports">>, desc |-> <<"Import statements">>]>>
         [] line[1] = "export type T" -> <<[name |-> <<"types">>, desc |-> <<"Type definitions">>]>>
         [] line[1] = "export class K" -> <<[name |-> <<"classes">>, desc |-> <<"Class definitions">>]>>
         [] OTHER -> <<>>

\* CLI: the first entry of plugin.autoPatterns matching the line, <<>> when none
CliAutoMatch(lang, line) ==
  IF ~Registered(lang) \/ Len(line) = 0 THEN <<>>
  ELSE CASE line[1] = "import x" -> << <<"imports">> >>
         [] line[1] = "export type T" -> << <<"types">> >>
         [] OTHER -> <<>>

\* index.mjs / CLI: plugin?.regionStart || <the TypeScript pattern>, applied to a line
LibRegionStart(lang, line) == RegionStartMatch(line)

\* index.mjs / CLI: plugin?.regionEnd || <the TypeScript pattern>
LibRegionEnd(lang, line) == RegionEndMatch(line)

\* index.mjs / CLI: plugin?.sectionMarker || <the TypeScript pattern>
LibSectionMarker(lang, line) == SectionMarkerMatch(line)

(***************************************************************************)
(* mcp-server: detectSectionsExplicit(lines, langConfig)                   *)
(* cur is <<>> (null) or <<currentSection>>                                *)
(***************************************************************************)
\* a variant that closes a section on the line before the one given
CloseAtBefore(cur, endLine) ==
  [cur EXCEPT !.end = endLine - 1, !.size = endLine - cur.line]

CloseAt(cur, endLine) ==
  [cur EXCEPT !.end = endLine, !.size = endLine - cur.line + 1]

RECURSIVE ExplicitLoop(_, _, _, _, _)
ExplicitLoop(ls, lang, i, sections, cur) ==
  IF i > Len(ls)
  THEN IF cur # <<>> THEN Append(sections, CloseAt(cur[1], Len(ls))) ELSE sections
  ELSE
    LET m == ServerRegionStart(lang, ls[i])
    IN IF m # <<>>
       THEN ExplicitLoop(ls, lang, i + 1,
              IF cur # <<>> THEN Append(sections, CloseAt(cur[1], i - 1)) ELSE sections,
              <<[name |-> m[1].name, desc |-> m[1].desc, line |-> i, end |-> i, size |-> 1]>>)
       ELSE IF ServerRegionEnd(lang, ls[i]) /\ cur # <<>>
            THEN ExplicitLoop(ls, lang, i + 1, Append(sections, CloseAt(cur[1], i)), <<>>)
            ELSE ExplicitLoop(ls, lang, i + 1, sections, cur)

detectSectionsExplicit(ls, lang) == ExplicitLoop(ls, lang, 1, <<>>, <<>>)

(***************************************************************************)
(* mcp-server: detectSectionsAuto(lines, langConfig)                       *)
(***************************************************************************)
RECURSIVE AutoLoop(_, _, _, _, _)
AutoLoop(ls, lang, i, sections, cur) ==
  IF i > Len(ls)
  THEN IF cur # <<>> THEN Append(sections, cur[1]) ELSE sections
  ELSE
    LET m == ServerAutoMatch(lang, ls[i])
    IN IF m = <<>> THEN AutoLoop(ls, lang, i + 1, sections, cur)
       ELSE IF cur # <<>> /\ cur[1].name = m[1].name
            \* same name: extend the open section to this line
            THEN AutoLoop(ls, lang, i + 1, sections, <<CloseAt(cur[1], i)>>)
            \* close the previous section at index i (the line before), open a new one
            ELSE AutoLoop(ls, lang, i + 1,
                   IF cur # <<>> THEN Append(sections, CloseAt(cur[1], i - 1)) ELSE sections,
                   <<[name |-> m[1].name, desc |-> m[1].desc, line |-> i, end |-> i, size |-> 1]>>)

\* a variant whose closed sections stop at their first matching line
detectSectionsAutoTight(ls, lang) ==
  LET r == AutoLoop(ls, lang, 1, <<>>, <<>>)
  IN [i \in 1..Len(r) |->
        IF i < Len(r) THEN [r[i] EXCEPT !.end = r[i].line, !.size = 1] ELSE r[i]]

detectSectionsAuto(ls, lang) == AutoLoop(ls, lang, 1, <<>>, <<>>)

(***************************************************************************)
(* index.mjs findSections(content, plugin), the CLI's findExplicitSections *)
(* cur is <<>> or <<[name, desc, start]>>; `if (currentSection)` is false  *)
(* for the empty name                                                      *)
(***************************************************************************)
Truthy(cur) == cur # <<>> /\ cur[1].name # <<>>

\* a variant that lets the emitted section run one line further
EmitThrough(sections, cur, endLine) ==
  IF Truthy(cur)
  THEN Append(sections, [name |-> cur[1].name, line |-> cur[1].start,
                         end |-> endLine + 1, desc |-> cur[1].desc])
  ELSE sections

Emit(sections, cur, endLine) ==
  IF Truthy(cur)
  THEN Append(sections, [name |-> cur[1].name, line |-> cur[1].start,
                         end |-> endLine, desc |-> cur[1].desc])
  ELSE sections

RECURSIVE FindLoop(_, _, _, _, _)
FindLoop(ls, lang, i, sections, cur) ==
  IF i > Len(ls) THEN Emit(sections, cur, Len(ls))
  ELSE
    LET r == LibRegionStart(lang, ls[i])
        k == LibSectionMarker(lang, ls[i])
    IN IF r # <<>>
       THEN FindLoop(ls, lang, i + 1, Emit(sections, cur, i - 1),
                     <<[name |-> r[1].name, desc |-> r[1].desc, start |-> i]>>)
       ELSE IF LibRegionEnd(lang, ls[i])
            THEN IF Truthy(cur)
                 THEN FindLoop(ls, lang, i + 1, Emit(sections, cur, i), <<>>)
                 ELSE FindLoop(ls, lang, i + 1, sections, cur)
            ELSE IF k # <<>>
                 THEN FindLoop(ls, lang, i + 1, Emit(sections, cur, i - 1),
                               <<[name |-> k[1], desc |-> <<>>, start |-> i]>>)
                 ELSE FindLoop(ls, lang, i + 1, sections, cur)

findSections(ls, lang) == FindLoop(ls, lang, 1, <<>>, <<>>)

findExplicitSections(ls, lang) == FindLoop(ls, lang, 1, <<>>, <<>>)

(***************************************************************************)
(* CLI: detectSectionsAuto(content, plugin)                                *)
(***************************************************************************)
RECURSIVE CliAutoLoop(_, _, _, _, _)
CliAutoLoop(ls, lang, i, sections, cur) ==
  IF i > Len(ls)
  THEN IF Truthy(cur)
       THEN Append(sections, [name |-> cur[1].name, line |-> cur[1].start, end |-> Len(ls)])
       ELSE sections
  ELSE
    LET d == CliAutoMatch(lang, ls[i])
    IN IF d = <<>> \/ (cur # <<>> /\ cur[1].name = d[1])
       THEN CliAutoLoop(ls, lang, i + 1, sections, cur)
       ELSE CliAutoLoop(ls, lang, i + 1,
              IF Truthy(cur)
              THEN Append(sections, [name |-> cur[1].name, line |-> cur[1].start, end |-> i - 1])
              ELSE sections,
              <<[name |-> d[1], start |-> i]>>)

cliDetectSectionsAuto(ls, lang) == CliAutoLoop(ls, lang, 1, <<>>, <<>>)

(***************************************************************************)
(* Text helpers of the codec                                               *)
(***************************************************************************)
\* the number of characters a token stands for
TokLen(t) ==
  CASE t \in {"Section", "imports", "classes"} -> 7
    [] t = "types" -> 5
    [] t = "main" -> 4
    [] t = "Description" -> 11
    [] t = "Main content" -> 12
    [] t \in {"Import statements", "Class definitions"} -> 17
    [] t = "Type definitions" -> 16
    [] t = "External dependencies" -> 21
    [] OTHER -> 1

RECURSIVE StrLen(_)
StrLen(s) == IF s = <<>> THEN 0 ELSE TokLen(Head(s)) + StrLen(Tail(s))

Spaces(n) == [i \in 1..n |-> " "]

Dashes(n) == [i \in 1..n |-> "-"]

\* String.prototype.padEnd / padStart with spaces
PadEnd(s, n) == IF StrLen(s) >= n THEN s ELSE s \o Spaces(n - StrLen(s))

PadStart(s, n) == IF StrLen(s) >= n THEN s ELSE Spaces(n - StrLen(s)) \o s

DigitTok == <<"0", "1", "2", "3", "4", "5", "6", "7", "8", "9">>

IsDigit(t) == \E d \in 1..10 : DigitTok[d] = t

DigitVal(t) == (CHOOSE d \in 1..10 : DigitTok[d] = t) - 1

\* String(n)
RECURSIVE Digits(_)
Digits(n) ==
  IF n < 0 THEN <<"-">> \o Digits(0 - n)
  ELSE IF n < 10 THEN <<DigitTok[n + 1]>>
  ELSE Append(Digits(n \div 10), DigitTok[(n % 10) + 1])

\* parseInt of a run of digits
RECURSIVE ParseInt(_)
ParseInt(s) ==
  IF s = <<>> THEN 0
  ELSE 10 * ParseInt(SubSeq(s, 1, Len(s) - 1)) + DigitVal(s[Len(s)])

\* lines.join('\n')
RECURSIVE Join(_)
Join(ls) ==
  IF Len(ls) = 0 THEN <<>>
  ELSE IF Len(ls) = 1 THEN ls[1]
  ELSE ls[1] \o <<"\n">> \o Join(Tail(ls))

\* content.split('\n')
RECURSIVE Split(_)
Split(text) ==
  LET nl == {i \in 1..Len(text) : text[i] = "\n"}
  IN IF nl = {} THEN <<text>>
     ELSE <<SubSeq(text, 1, SetMin(nl) - 1)>>
          \o Split(SubSeq(text, SetMin(nl) + 1, Len(text)))

\* String.prototype.includes for the two needles the parsers use
IncludesSection(s) == \E i \in 1..Len(s) : s[i] = "Section"

IncludesDashes(s) ==
  \E i \in 1..(Len(s) - 2) : s[i] = "-" /\ s[i + 1] = "-" /\ s[i + 2] = "-"

(***************************************************************************)
(* index.mjs generateIndex(sections, totalLines), the CLI's                *)
(* generateIndexBlock: the block as lines, `now` the ISO timestamp         *)
(***************************************************************************)
MinWidth == 20

NumWidth == 4

SectionDesc(sec) == IF "desc" \in DOMAIN sec THEN sec.desc ELSE <<>>

MaxNameLen(sections) ==
  SetMax({MinWidth} \cup {StrLen(sections[i].name) : i \in 1..Len(sections)})

MaxDescLen(sections) ==
  SetMax({MinWidth} \cup {StrLen(SectionDesc(sections[i])) : i \in 1..Len(sections)})

RowLine(c1, c2, c3, c4, c5) ==
  <<" ", "*", " ", "|", " ">> \o c1 \o <<" ", "|", " ">> \o c2 \o <<" ", "|", " ">>
  \o c3 \o <<" ", "|", " ">> \o c4 \o <<" ", "|", " ">> \o c5 \o <<" ", "|">>

SectionRow(sec, nameLen, descLen) ==
  RowLine(PadEnd(sec.name, nameLen),
          PadStart(Digits(sec.line), NumWidth),
          PadStart(Digits(sec.end), NumWidth),
          PadStart(Digits(sec.end - sec.line + 1), NumWidth),
          PadEnd(SectionDesc(sec), descLen))

generateIndex(sections, totalLines, now) ==
  LET nameLen == MaxNameLen(sections)
      descLen == MaxDescLen(sections)
  IN << <<"/**">>,
        <<" ", "*", " ", "@ai-index">>,
        <<" ", "*", " ", "@generated", " ", now>>,
        <<" ", "*", " ", "@total-lines", " ">> \o Digits(totalLines),
        <<" ", "*">>,
        RowLine(PadEnd(<<"Section">>, nameLen), <<"Line">>, <<"End", " ", " ">>,
                <<"Size">>, PadEnd(<<"Description">>, descLen)),
        RowLine(Dashes(nameLen), Dashes(4), Dashes(4), Dashes(4), Dashes(descLen)) >>
     \o [i \in 1..Len(sections) |-> SectionRow(sections[i], nameLen, descLen)]
     \o << <<" ", "*/">> >>

generateIndexBlock(sections, totalLines, now) == generateIndex(sections, totalLines, now)

(***************************************************************************)
(* index.mjs parseIndex(content), the CLI's parseExistingIndex             *)
(***************************************************************************)
\* /\/\*\*\s*\n\s*\*\s*@ai-index[\s\S]*?\*\// at token p of the text: 0 when it
\* does not match there, else the position of the closing "*/"
BlockEndAt(text, p) ==
  IF text[p] # "/**" THEN 0
  ELSE
    LET n == Len(text)
        nonWs1 == {i \in (p + 1)..n : ~IsWs(text[i])}
        q == IF nonWs1 = {} THEN 0 ELSE SetMin(nonWs1)
        nonWs2 == IF q = 0 THEN {} ELSE {i \in (q + 1)..n : ~IsWs(text[i])}
        r == IF nonWs2 = {} THEN 0 ELSE SetMin(nonWs2)
        closing == IF r = 0 THEN {} ELSE {i \in (r + 1)..n : text[i] = "*/"}
    IN IF /\ q # 0
          /\ text[q] = "*"
          /\ \E i \in (p + 1)..(q - 1) : text[i] = "\n"
          /\ r # 0
          /\ text[r] = "@ai-index"
          /\ closing # {}
       THEN SetMin(closing)
       ELSE 0

\* the cells of the block: cells[j] is the text between the j-th and the
\* (j+1)-th "|"
Cells(blockText) ==
  LET pipes == {i \in 1..Len(blockText) : blockText[i] = "|"}
      np == Cardinality(pipes)
      pos == [i \in pipes |-> Cardinality({x \in pipes : x <= i})]
      at == [j \in 1..np |-> CHOOSE i \in pipes : pos[i] = j]
  IN [j \in 1..(IF np = 0 THEN 0 ELSE np - 1) |->
        SubSeq(blockText, at[j] + 1, at[j + 1] - 1)]

\* \s*(\d+)\s*
IsNumCell(c) == Trim(c) # <<>> /\ \A i \in 1..Len(Trim(c)) : IsDigit(Trim(c)[i])

\* the capture of \s*([^\|]+?)\s* on a non-empty cell
NameCapture(c) == IF Trim(c) = <<>> THEN <<c[Len(c)]>> ELSE Trim(c)

\* matchAll of
\* /\|\s*([^\|]+?)\s*\|\s*(\d+)\s*\|\s*(\d+)\s*\|(?:\s*(\d+)\s*\|)?(?:\s*([^\|]*?)\s*\|)?/g
\* from the j-th "|" on: the matches [name, line, end, size, desc] in order,
\* size and desc <<>> when their group did not take part
RECURSIVE RowMatches(_, _)
RowMatches(cells, j) ==
  IF j + 2 > Len(cells) THEN <<>>
  ELSE IF Len(cells[j]) >= 1 /\ IsNumCell(cells[j + 1]) /\ IsNumCell(cells[j + 2])
  THEN LET hasSize == j + 3 <= Len(cells) /\ IsNumCell(cells[j + 3])
           dj == IF hasSize THEN j + 4 ELSE j + 3
           hasDesc == dj <= Len(cells)
       IN << [name |-> NameCapture(cells[j]),
              line |-> Trim(cells[j + 1]),
              end |-> Trim(cells[j + 2]),
              size |-> IF hasSize THEN Trim(cells[j + 3]) ELSE <<>>,
              desc |-> IF hasDesc THEN Trim(cells[dj]) ELSE <<>>] >>
          \* the match ends with the "|" closing its last cell; the next one starts
          \* at a later "|"
          \o RowMatches(cells, IF hasDesc THEN dj + 2 ELSE dj + 1)
  ELSE RowMatches(cells, j + 1)

\* the body of the for-loop over the rows: the rows that are stored
RowKept(row) == ~IncludesSection(row.name) /\ ~IncludesDashes(row.name)

RowValue(row) ==
  [line |-> ParseInt(row.line),
   end |-> ParseInt(row.end),
   size |-> IF row.size # <<>> THEN ParseInt(row.size)
            ELSE ParseInt(row.end) - ParseInt(row.line),
   desc |-> row.desc]

\* the sections object: name.trim() -> value, a later row replacing an earlier one
SectionsOf(rows) ==
  LET kept == {i \in 1..Len(rows) : RowKept(rows[i])}
      keys == {Trim(rows[i].name) : i \in kept}
  IN [k \in keys |->
        RowValue(rows[SetMax({i \in kept : Trim(rows[i].name) = k})])]

\* <<>> (null) or <<[raw, sections, startIndex, endIndex]>>
ParseText(text) ==
  LET starts == {p \in 1..Len(text) : text[p] = "/**"}
      found == {p \in starts : BlockEndAt(text, p) # 0}
  IN IF found = {} THEN <<>>
     ELSE LET p == SetMin(found)
              e == BlockEndAt(text, p)
              raw == SubSeq(text, p, e)
          IN <<[raw |-> raw,
                sections |-> SectionsOf(RowMatches(Cells(raw), 1)),
                startIndex |-> p - 1,
                endIndex |-> e]>>

parseIndex(content) == ParseText(Join(content))

parseExistingIndex(content) == parseIndex(content)

(***************************************************************************)
(* Companion documents (mcp-server v2.1)                                   *)
(* A candidate path holds <<>> (no readable file) or <<doc>>; a doc is the *)
(* rows of the table under its "## Sections" heading, header and separator *)
(* row included, or no table at all.  A row is [name, cell, desc]; the     *)
(* Lines cell is [form, a, b]: "single" for "a", "range" for "a-b" and     *)
(* "bad" for a cell without a digit.                                       *)
(***************************************************************************)
NoCompanion == << <<>>, <<>>, <<>> >>

Cell(form, a, b) == [form |-> form, a |-> a, b |-> b]

Row(name, cell) == [name |-> name, cell |-> cell, desc |-> <<>>]

HeaderRow == [name |-> <<"Section">>, cell |-> Cell("bad", 0, 0), desc |-> <<"Description">>]

SeparatorRow == [name |-> Dashes(9), cell |-> Cell("bad", 0, 0), desc |-> Dashes(13)]

Doc(rows) == [hasTable |-> TRUE, rows |-> <<HeaderRow, SeparatorRow>> \o rows]

DocWithoutTable == [hasTable |-> FALSE, rows |-> <<>>]

\* findCompanionMarkdown: the first candidate that can be read, <<>> when none
findCompanionMarkdown(comp) ==
  LET found == {i \in 1..Len(comp) : comp[i] # <<>>}
  IN IF found = {} THEN <<>> ELSE <<SetMin(found)>>

\* the for-loop over the table rows of parseCompanionMarkdown
RECURSIVE CompanionRows(_)
CompanionRows(rows) ==
  IF rows = <<>> THEN <<>>
  ELSE
    LET row == Head(rows)
    IN IF IncludesSection(row.name) \/ IncludesDashes(row.name) \/ row.cell.form = "bad"
       THEN CompanionRows(Tail(rows))
       ELSE << [name |-> Trim(row.name),
                line |-> row.cell.a,
                end |-> IF row.cell.form = "range" THEN row.cell.b ELSE row.cell.a,
                desc |-> Trim(row.desc)] >> \o CompanionRows(Tail(rows))

parseCompanionMarkdown(doc) ==
  [sections |-> IF doc.hasTable THEN CompanionRows(doc.rows) ELSE <<>>]

(***************************************************************************)
(* mcp-server (v2.0): generateIndex(filePath)                              *)
(***************************************************************************)
MainSection(ls) ==
  [name |-> <<"main">>, desc |-> <<"Main content">>, line |-> 1, end |-> Len(ls),
   size |-> Len(ls)]

Language(lang) == IF Registered(lang) THEN lang ELSE "unknown"

\* a variant without the "main" fallback
mcpGenerateIndexNoFallback(ls, lang) ==
  LET explicit == detectSectionsExplicit(ls, lang)
      auto == IF explicit = <<>> THEN detectSectionsAuto(ls, lang) ELSE explicit
  IN [language |-> Language(lang), totalLines |-> Len(ls), sections |-> auto]

mcpGenerateIndex(ls, lang) ==
  LET explicit == detectSectionsExplicit(ls, lang)
      auto == IF explicit = <<>> THEN detectSectionsAuto(ls, lang) ELSE explicit
      sections == IF auto = <<>> THEN <<MainSection(ls)>> ELSE auto
  IN [language |-> Language(lang), totalLines |-> Len(ls), sections |-> sections]

(***************************************************************************)
(* mcp-server (v2.1): generateIndex(filePath), companion first             *)
(***************************************************************************)
WithSize(sections) ==
  [i \in 1..Len(sections) |->
     [name |-> sections[i].name, line |-> sections[i].line, end |-> sections[i].end,
      desc |-> sections[i].desc, size |-> sections[i].end - sections[i].line + 1]]

mcpGenerateIndexV21(ls, lang, comp) ==
  LET path == findCompanionMarkdown(comp)
      fromMd == IF path = <<>> THEN <<>>
                ELSE WithSize(parseCompanionMarkdown(comp[path[1]][1]).sections)
      explicit == IF fromMd = <<>> THEN detectSectionsExplicit(ls, lang) ELSE <<>>
      auto == IF fromMd = <<>> /\ explicit = <<>> THEN detectSectionsAuto(ls, lang) ELSE <<>>
      source == IF fromMd # <<>> THEN "markdown"
                ELSE IF explicit # <<>> THEN "regions" ELSE "auto"
      sections == IF fromMd # <<>> THEN fromMd
                  ELSE IF explicit # <<>> THEN explicit
                  ELSE IF auto # <<>> THEN auto
                  ELSE <<MainSection(ls)>>
  IN [language |-> Language(lang), totalLines |-> Len(ls), source |-> source,
      sections |-> sections, companionFile |-> path]

(***************************************************************************)
(* mcp-server: readSection(filePath, sectionName), over the index of v2.0  *)
(* and of v2.1                                                             *)
(***************************************************************************)
\* index.sections.find(s => s.name === sectionName): <<>> or <<section>>
FindByName(sections, name) ==
  LET hits == {i \in 1..Len(sections) : sections[i].name = name}
  IN IF hits = {} THEN <<>> ELSE <<sections[SetMin(hits)]>>

\* lines.slice(from - 1, to) for from >= 1
Slice(ls, from, to) ==
  SubSeq(ls, from, IF to > Len(ls) THEN Len(ls) ELSE to)

\* a variant that leaves out the section's last line
SectionResultShort(ls, section) ==
  [section |-> section.name, lineStart |-> section.line, lineEnd |-> section.end,
   content |-> Join(Slice(ls, section.line, section.end - 1))]

SectionResult(ls, section) ==
  [section |-> section.name, lineStart |-> section.line, lineEnd |-> section.end,
   content |-> Join(Slice(ls, section.line, section.end))]

\* error: `Section "${sectionName}" not found`, kept as the name it quotes
NotFound(sections, name) ==
  [error |-> name,
   availableSections |-> [i \in 1..Len(sections) |-> sections[i].name]]

readSection(ls, lang, name) ==
  LET index == mcpGenerateIndex(ls, lang)
      section == FindByName(index.sections, name)
  IN IF section = <<>> THEN NotFound(index.sections, name) ELSE SectionResult(ls, section[1])

readSectionV21(ls, lang, comp, name) ==
  LET index == mcpGenerateIndexV21(ls, lang, comp)
      section == FindByName(index.sections, name)
  IN IF section = <<>> THEN NotFound(index.sections, name) ELSE SectionResult(ls, section[1])

(***************************************************************************)
(* CLI: insertIndex(content, indexBlock, existingIndex), inlined in        *)
(* index.mjs indexFile; content and result are lines                       *)
(***************************************************************************)
ShebangLine == <<"#!", "/usr/bin/env node">>

\* a variant that ignores the block found and always inserts at the top
insertIndexAtTop(content, indexBlock, existingIndex) ==
  Split(Join(indexBlock) \o <<"\n", "\n">> \o Join(content))

insertIndex(content, indexBlock, existingIndex) ==
  LET text == Join(content)
      blockText == Join(indexBlock)
      nl == {i \in 1..Len(text) : text[i] = "\n"}
  IN IF existingIndex # <<>>
     THEN Split(SubSeq(text, 1, existingIndex[1].startIndex) \o blockText
                \o SubSeq(text, existingIndex[1].endIndex + 1, Len(text)))
     \* /^#!.*\n/
     ELSE IF Len(text) >= 1 /\ text[1] = "#!" /\ nl # {}
     THEN Split(SubSeq(text, 1, SetMin(nl)) \o blockText \o <<"\n", "\n">>
                \o SubSeq(text, SetMin(nl) + 1, Len(text)))
     ELSE Split(blockText \o <<"\n", "\n">> \o text)

(***************************************************************************)
(* CLI: indexFile(filePath, options): [result, content], content the file  *)
(* as written (unchanged when nothing is written); `sections` is the local *)
(* list handed to generateIndexBlock                                       *)
(***************************************************************************)
\* descMap[section.name] || ''
DescMap(name) ==
  CASE name = <<"imports">> -> <<"External dependencies">>
    [] name = <<"types">> -> <<"Type definitions">>
    [] name = <<"main">> -> <<"Main content">>
    [] name = <<"classes">> -> <<"Class definitions">>
    [] OTHER -> <<>>

WithDesc(sections) ==
  [i \in 1..Len(sections) |->
     [name |-> sections[i].name, line |-> sections[i].line, end |-> sections[i].end,
      desc |-> IF SectionDesc(sections[i]) = <<>> THEN DescMap(sections[i].name)
               ELSE sections[i].desc]]

CliMainSection(totalLines) ==
  [name |-> <<"main">>, line |-> 1, end |-> totalLines, desc |-> <<"Main content">>]

cliIndexFile(content, lang, minLines, now) ==
  LET totalLines == Len(content)
      existingIndex == parseExistingIndex(content)
      explicit == findExplicitSections(content, lang)
      auto == IF explicit = <<>> THEN cliDetectSectionsAuto(content, lang) ELSE explicit
      sections == WithDesc(IF auto = <<>> THEN <<CliMainSection(totalLines)>> ELSE auto)
      indexBlock == generateIndexBlock(sections, totalLines, now)
  IN IF minLines # 0 /\ totalLines < minLines
     THEN [result |-> [skipped |-> TRUE, reason |-> "below-threshold"], content |-> content]
     ELSE IF ~Registered(lang)
     THEN [result |-> [skipped |-> TRUE, reason |-> "unsupported"], content |-> content]
     ELSE [result |-> [success |-> TRUE, count |-> Len(sections), sections |-> sections,
                       totalLines |-> totalLines,
                       action |-> IF existingIndex # <<>> THEN "Updated" ELSE "Added"],
           content |-> insertIndex(content, indexBlock, existingIndex)]

(***************************************************************************)
(* index.mjs: indexFile(filePath); an unregistered extension throws        *)
(***************************************************************************)
indexFile(content, lang, now) ==
  LET totalLines == Len(content)
      existingIndex == parseIndex(content)
      found == findSections(content, lang)
      sections == IF found = <<>> THEN <<CliMainSection(totalLines)>> ELSE found
      indexBlock == generateIndex(sections, totalLines, now)
  IN IF ~Registered(lang)
     THEN [result |-> [thrown |-> "Unsupported file type"], content |-> content]
     ELSE [result |-> [count |-> Len(sections), sections |-> sections,
                       totalLines |-> totalLines,
                       action |-> IF existingIndex # <<>> THEN "updated" ELSE "added"],
           content |-> insertIndex(content, indexBlock, existingIndex)]

(***************************************************************************)
(* CLI: verifyIndex(filePath)                                              *)
(* errors: the names flagged by the loop over the stored sections, and the *)
(* errors of the loop over the explicit sections in its order              *)
(***************************************************************************)
DriftTolerance == 5

Abs(x) == IF x < 0 THEN 0 - x ELSE x

\* a variant that already flags a difference equal to the tolerance
DriftedAtTolerance(indexedLine, explicitLine) ==
  Abs(indexedLine - explicitLine) >= DriftTolerance

Drifted(indexedLine, explicitLine) == Abs(indexedLine - explicitLine) > DriftTolerance

\* `sections` is a plain object ({}): a key it does not own is still looked up
\* on Object.prototype, where "constructor" (like toString, valueOf, ...) is
\* found; what is found there is truthy and has no `line`
InheritedKeys == {<<"constructor">>}

\* `!indexed` for indexed = existingIndex.sections[name]
NotIndexed(stored, name) == name \notin DOMAIN stored /\ name \notin InheritedKeys

RECURSIVE ExplicitErrors(_, _)
ExplicitErrors(stored, explicit) ==
  IF explicit = <<>> THEN <<>>
  ELSE
    LET e == Head(explicit)
    IN (IF NotIndexed(stored, e.name)
        THEN << [kind |-> "not-in-index", name |-> e.name, actual |-> e.line] >>
        \* Math.abs(undefined - n) > 5 is false
        ELSE IF e.name \in DOMAIN stored /\ Drifted(stored[e.name].line, e.line)
        THEN << [kind |-> "line-drift", name |-> e.name, actual |-> e.line] >>
        ELSE <<>>)
       \o ExplicitErrors(stored, Tail(explicit))

\* a variant that falls back to auto-detection when the file has no marker
verifyIndexWithAuto(content, lang) ==
  LET existingIndex == parseExistingIndex(content)
  IN IF existingIndex = <<>> THEN [valid |-> FALSE, reason |-> "no-index"]
     ELSE
       LET stored == existingIndex[1].sections
           exceed == {n \in DOMAIN stored :
                        stored[n].line > Len(content) \/ stored[n].end > Len(content)}
           explicit == findExplicitSections(content, lang)
           errs == ExplicitErrors(stored, IF explicit = <<>>
                                          THEN cliDetectSectionsAuto(content, lang)
                                          ELSE explicit)
       IN IF exceed # {} \/ errs # <<>>
          THEN [valid |-> FALSE, exceed |-> exceed, errors |-> errs]
          ELSE [valid |-> TRUE]

verifyIndex(content, lang) ==
  LET existingIndex == parseExistingIndex(content)
  IN IF existingIndex = <<>> THEN [valid |-> FALSE, reason |-> "no-index"]
     ELSE
       LET stored == existingIndex[1].sections
           exceed == {n \in DOMAIN stored :
                        stored[n].line > Len(content) \/ stored[n].end > Len(content)}
           errs == ExplicitErrors(stored, findExplicitSections(content, lang))
       IN IF exceed # {} \/ errs # <<>>
          THEN [valid |-> FALSE, exceed |-> exceed, errors |-> errs]
          ELSE [valid |-> TRUE]

(***************************************************************************)
(* CLI: removeIndex(filePath): [result, content]                           *)
(***************************************************************************)
\* text.replace(/^\n+/, '')
RECURSIVE StripNewlines(_)
StripNewlines(text) ==
  IF text # <<>> /\ Head(text) = "\n" THEN StripNewlines(Tail(text)) ELSE text

\* a variant that splices out the block only
removeIndexBlockOnly(content) ==
  LET existingIndex == parseExistingIndex(content)
      text == Join(content)
  IN IF existingIndex = <<>>
     THEN [result |-> [removed |-> FALSE], content |-> content]
     ELSE [result |-> [removed |-> TRUE],
           content |-> Split(SubSeq(text, 1, existingIndex[1].startIndex)
                             \o SubSeq(text, existingIndex[1].endIndex + 1, Len(text)))]

removeIndex(content) ==
  LET existingIndex == parseExistingIndex(content)
      text == Join(content)
  IN IF existingIndex = <<>>
     THEN [result |-> [removed |-> FALSE], content |-> content]
     ELSE [result |-> [removed |-> TRUE],
           content |-> Split(SubSeq(text, 1, existingIndex[1].startIndex)
                             \o StripNewlines(SubSeq(text, existingIndex[1].endIndex + 1,
                                                     Len(text))))]

(***************************************************************************)
(* Inputs                                                                  *)
(***************************************************************************)
Exts == {"ts", "none"}

Stamps == {"t1"}

\* end-to-end scenario 1: ten lines, //#region imports at 1, //#endregion at 3
Scenario1 ==
  <<RegionLine(<<"imports">>), ImportLine, EndRegionLine, CodeLine, CodeLine,
    CodeLine, CodeLine, CodeLine, CodeLine, CodeLine>>

ScanKinds ==
  {RegionLine(NameA), RegionLine(NameB), EndRegionLine, MarkerLine(NameA),
   ImportLine, TypeLine, ClassLine, CodeLine, EmptyLine}

ScanFiles == SeqsUpTo(ScanKinds, MaxLines) \cup {Scenario1}

FileKinds ==
  {RegionLine(NameA), RegionLine(NameB), EndRegionLine, ImportLine, ClassLine,
   CodeLine}

\* the empty file is one empty line: ''.split('\n') is ['']
EmptyFile == <<EmptyLine>>

\* files that start with an interpreter directive; the first is the directive
\* alone, without a newline after it
ShebangFiles ==
  {<<ShebangLine>>, <<ShebangLine, CodeLine>>, <<ShebangLine, RegionLine(NameA), CodeLine>>}

Files(n) == SeqsUpTo(FileKinds, n) \cup {EmptyFile} \cup ShebangFiles

\* the files tried beside a companion: explicit markers, auto patterns, neither
CompFiles == {<<RegionLine(NameA)>>, <<ImportLine>>, <<CodeLine>>}

CompCells ==
  {Cell("single", 1, 1), Cell("bad", 0, 0)}
  \cup {Cell("range", p[1], p[2]) : p \in {q \in (1..MaxCompLine) \X (1..MaxCompLine) : q[1] # q[2]}}

CompRows == {Row(n, c) : n \in {NameA, NameB}, c \in CompCells}

Docs == {DocWithoutTable} \cup {Doc(rows) : rows \in {<<>>} \cup SeqsUpTo(CompRows, MaxRows)}

\* a document at the first candidate path, or behind a first candidate
\* without a table, or at the last path
Companions ==
  {<< <<d>>, <<>>, <<>> >> : d \in Docs}
  \cup {<< <<DocWithoutTable>>, <<Doc(<<r>>)>>, <<>> >> : r \in CompRows}
  \cup {<< <<>>, <<>>, <<Doc(<<r>>)>> >> : r \in CompRows}

(***************************************************************************)
(* SpecScan: the four scanners applied to a file                           *)
(***************************************************************************)
\* no CLI run
NoBatch == <<>>

\* no operation between its read and its write
NoOp == <<>>

Idle ==
  /\ companion = NoCompanion /\ before = <<>> /\ writes = 0 /\ batch = NoBatch /\ inflight = NoOp
  /\ secs = <<>> /\ total = 0 /\ block = <<>> /\ parsed = <<>>

InitScan ==
  /\ ext \in Exts
  /\ lines \in ScanFiles
  /\ pc = "start"
  /\ out = <<>>
  /\ Idle

Scanned(name, sections) ==
  /\ pc' = name
  /\ out' = sections
  /\ UNCHANGED <<ext, lines, companion, before, writes, secs, total, block, parsed, batch, inflight>>

DetectSectionsExplicit == Scanned("detectSectionsExplicit", detectSectionsExplicit(lines, ext))

DetectSectionsAuto == Scanned("detectSectionsAuto", detectSectionsAuto(lines, ext))

FindSections == Scanned("findSections", findSections(lines, ext))

FindExplicitSections == Scanned("findExplicitSections", findExplicitSections(lines, ext))

CliDetectSectionsAuto == Scanned("cliDetectSectionsAuto", cliDetectSectionsAuto(lines, ext))

NextScan ==
  \/ DetectSectionsExplicit
  \/ DetectSectionsAuto
  \/ FindSections
  \/ FindExplicitSections
  \/ CliDetectSectionsAuto

SpecScan == InitScan /\ [][NextScan]_vars

(***************************************************************************)
(* SpecCodec: generateIndex, then parseIndex of what it produced           *)
(***************************************************************************)
NameToks == {"a", "Section", "1"}

CodecNames == SeqsUpTo(NameToks, MaxNameToks)

CodecRanges ==
  {<<a, b>> : a \in 1..MaxSecLine, b \in 1..MaxSecLine} \cup {<<1, BigLine>>}

CodecSections ==
  {[name |-> n, line |-> r[1], end |-> r[2], desc |-> d] :
     n \in CodecNames, r \in {x \in CodecRanges : x[1] <= x[2]}, d \in {<<>>, <<"d">>}}

\* section lists with pairwise different names
CodecLists ==
  {<<>>} \cup {<<x>> : x \in CodecSections}
  \cup {p \in CodecSections \X CodecSections : p[1].name # p[2].name}

InitCodec ==
  /\ secs \in CodecLists
  /\ total \in {MaxSecLine, BigLine}
  /\ block = <<>> /\ parsed = <<>>
  /\ pc = "start" /\ out = <<>>
  /\ ext = "ts" /\ lines = <<EmptyLine>>
  /\ companion = NoCompanion /\ before = <<>> /\ writes = 0 /\ batch = NoBatch /\ inflight = NoOp

Serialize ==
  /\ pc = "start"
  /\ \E now \in Stamps : block' = generateIndex(secs, total, now)
  /\ pc' = "generateIndex"
  /\ UNCHANGED <<ext, lines, companion, out, before, writes, secs, total, parsed, batch, inflight>>

Parse ==
  /\ pc = "generateIndex"
  /\ parsed' = parseIndex(block)
  /\ pc' = "parseIndex"
  /\ UNCHANGED <<ext, lines, companion, out, before, writes, secs, total, block, batch, inflight>>

NextCodec == Serialize \/ Parse

SpecCodec == InitCodec /\ [][NextCodec]_vars

(***************************************************************************)
(* SpecMinimal: a block written by hand in the README's minimal variant    *)
(* (columns Section | Line | End), then parseIndex of it                   *)
(***************************************************************************)
MaxMinRows == 3

MinimalRow(c1, c2, c3) ==
  <<" ", "*", " ", "|", " ">> \o c1 \o <<" ", "|", " ">> \o c2 \o <<" ", "|", " ">>
  \o c3 \o <<" ", "|">>

\* the README's "Minimal" index format
MinimalBlock(sections) ==
  << <<"/**">>,
     <<" ", "*", " ", "@ai-index">>,
     MinimalRow(<<"Section">>, <<"Line">>, <<"End">>),
     <<" ", "*", " ", "|">> \o Dashes(9) \o <<"|">> \o Dashes(6) \o <<"|">> \o Dashes(5)
       \o <<"|">> >>
  \o [i \in 1..Len(sections) |->
        MinimalRow(sections[i].name, PadStart(Digits(sections[i].line), NumWidth),
                   PadStart(Digits(sections[i].end), NumWidth))]
  \o << <<" ", "*/">> >>

MinimalSections ==
  {[name |-> n, line |-> r[1], end |-> r[2]] :
     n \in {NameA, NameB, <<"c">>}, r \in {<<1, 1>>, <<1, 2>>, <<2, 3>>}}

\* rows with pairwise different names
MinimalLists ==
  {l \in SeqsUpTo(MinimalSections, MaxMinRows) :
     \A i, j \in 1..Len(l) : i # j => l[i].name # l[j].name}

InitMinimal ==
  /\ secs \in MinimalLists
  /\ total = 0 /\ block = <<>> /\ parsed = <<>>
  /\ pc = "start" /\ out = <<>>
  /\ ext = "ts" /\ lines = <<EmptyLine>>
  /\ companion = NoCompanion /\ before = <<>> /\ writes = 0 /\ batch = NoBatch /\ inflight = NoOp

WriteMinimal ==
  /\ pc = "start"
  /\ block' = MinimalBlock(secs)
  /\ pc' = "minimalBlock"
  /\ UNCHANGED <<ext, lines, companion, out, before, writes, secs, total, parsed, batch, inflight>>

ParseMinimal ==
  /\ pc = "minimalBlock"
  /\ parsed' = parseIndex(block)
  /\ pc' = "parseMinimal"
  /\ UNCHANGED <<ext, lines, companion, out, before, writes, secs, total, block, batch, inflight>>

NextMinimal == WriteMinimal \/ ParseMinimal

SpecMinimal == InitMinimal /\ [][NextMinimal]_vars

(***************************************************************************)
(* Spec: the server's requests and the generate commands on one file       *)
(***************************************************************************)
Init ==
  /\ ext \in Exts
  /\ \/ companion = NoCompanion /\ lines \in Files(MaxFileLines)
     \/ companion \in Companions /\ lines \in CompFiles
  /\ pc = "start" /\ out = <<>>
  /\ before = <<>> /\ writes = 0 /\ batch = NoBatch /\ inflight = NoOp
  /\ secs = <<>> /\ total = 0 /\ block = <<>> /\ parsed = <<>>

\* a variant of get_file_index that embeds the index it computed in the file
GetFileIndexEmbedding ==
  /\ pc' = "get_file_index"
  /\ before' = lines
  /\ out' = mcpGenerateIndex(lines, ext)
  /\ lines' = cliIndexFile(lines, ext, 0, "t1").content
  /\ UNCHANGED <<ext, companion, writes, secs, total, block, parsed, batch, inflight>>

\* tools/call get_file_index (v2.0)
GetFileIndex ==
  /\ pc' = "get_file_index"
  /\ before' = lines
  /\ out' = mcpGenerateIndex(lines, ext)
  /\ UNCHANGED <<ext, lines, companion, writes, secs, total, block, parsed, batch, inflight>>

\* tools/call get_file_index (v2.1)
GetFileIndexV21 ==
  /\ pc' = "get_file_index_v21"
  /\ before' = lines
  /\ out' = mcpGenerateIndexV21(lines, ext, companion)
  /\ UNCHANGED <<ext, lines, companion, writes, secs, total, block, parsed, batch, inflight>>

\* CLI generate; writeFile is reached only when the file is not skipped
IndexFile ==
  /\ writes < MaxWrites
  /\ \E minLines \in {0, MinLinesOpt}, now \in Stamps :
       LET r == cliIndexFile(lines, ext, minLines, now)
       IN /\ out' = r.result
          /\ lines' = r.content
          /\ writes' = IF "success" \in DOMAIN r.result THEN writes + 1 ELSE writes
  /\ pc' = "indexFile"
  /\ before' = lines
  /\ UNCHANGED <<ext, companion, secs, total, block, parsed, batch, inflight>>

\* library indexFile
LibIndexFile ==
  /\ writes < MaxWrites
  /\ \E now \in Stamps :
       LET r == indexFile(lines, ext, now)
       IN /\ out' = r.result
          /\ lines' = r.content
          /\ writes' = IF "thrown" \in DOMAIN r.result THEN writes ELSE writes + 1
  /\ pc' = "libIndexFile"
  /\ before' = lines
  /\ UNCHANGED <<ext, companion, secs, total, block, parsed, batch, inflight>>

\* CLI --remove; writeFile is reached only when a block was found
RemoveIndex ==
  /\ writes < MaxWrites
  /\ LET r == removeIndex(lines)
     IN /\ out' = r.result
        /\ lines' = r.content
        /\ writes' = IF r.result.removed THEN writes + 1 ELSE writes
  /\ pc' = "removeIndex"
  /\ before' = lines
  /\ UNCHANGED <<ext, companion, secs, total, block, parsed, batch, inflight>>

Next ==
  \/ GetFileIndex
  \/ GetFileIndexV21
  \/ IndexFile
  \/ LibIndexFile
  \/ RemoveIndex

Spec == Init /\ [][Next]_vars

(***************************************************************************)
(* SpecServer: the requests of the agent-facing server on one file         *)
(***************************************************************************)
\* section_name arguments: explicit and companion names, the fallback name,
\* an auto-detected name, a name no index has
RequestNames == {NameA, <<"main">>, <<"imports">>, <<"zz">>}

\* tools/call read_section (v2.0)
ReadSection ==
  /\ \E name \in RequestNames :
       /\ out' = readSection(lines, ext, name)
       /\ pc' = "read_section"
  /\ before' = lines
  /\ UNCHANGED <<ext, lines, companion, writes, secs, total, block, parsed, batch, inflight>>

\* tools/call read_section (v2.1)
ReadSectionV21 ==
  /\ \E name \in RequestNames :
       /\ out' = readSectionV21(lines, ext, companion, name)
       /\ pc' = "read_section_v21"
  /\ before' = lines
  /\ UNCHANGED <<ext, lines, companion, writes, secs, total, block, parsed, batch, inflight>>

NextServer ==
  \/ GetFileIndex
  \/ GetFileIndexV21
  \/ ReadSection
  \/ ReadSectionV21

SpecServer == Init /\ [][NextServer]_vars

(***************************************************************************)
(* SpecVerify: verify on a file that holds a block and was edited since    *)
(***************************************************************************)
VerifyKinds ==
  {RegionLine(NameA), RegionLine(NameB), RegionLine(<<"constructor">>),
   EndRegionLine, CodeLine}

StoredSections ==
  {[name |-> NameA, line |-> a, end |-> a + d, desc |-> <<>>] :
     a \in 1..MaxStoredLine, d \in {0, 1}}

StoredLists == {<<>>} \cup {<<x>> : x \in StoredSections}

InitVerify ==
  /\ ext \in Exts
  /\ \E stored \in StoredLists, code \in SeqsUpTo(VerifyKinds, MaxCodeLines) :
       \/ lines = generateIndexBlock(stored, MaxStoredLine, "t1") \o <<EmptyLine>> \o code
       \/ stored = <<>> /\ lines = code
  /\ pc = "start" /\ out = <<>>
  /\ Idle

VerifyIndex ==
  /\ pc' = "verifyIndex"
  /\ before' = lines
  /\ out' = verifyIndex(lines, ext)
  /\ UNCHANGED <<ext, lines, companion, writes, secs, total, block, parsed, batch, inflight>>

NextVerify == VerifyIndex

SpecVerify == InitVerify /\ [][NextVerify]_vars

(***************************************************************************)
(* SpecBatch: main() of the CLI over the paths of its command line         *)
(* batch is [mode, minLines, patterns, disk, files, i, results, processed, *)
(* phase, exit]; disk maps a path to [kind, ext, lines], kind "file" for a *)
(* readable file, "locked" for a file readFile fails on, "dir" for a       *)
(* directory and "missing" for a path that does not exist                  *)
(***************************************************************************)
MaxArgs == 3

Modes == {"generate", "verify", "remove"}

MarkedFile == <<RegionLine(NameA), CodeLine>>

\* MarkedFile after one generate (its block is stale) and after two
StaleIndexed == cliIndexFile(MarkedFile, "ts", 0, "t1").content

FreshIndexed == cliIndexFile(StaleIndexed, "ts", 0, "t1").content

Disk ==
  [path \in {"a.ts", "stale.ts", "fresh.ts", "n.txt", "locked.ts", "src", "gone.ts"} |->
     CASE path = "a.ts" -> [kind |-> "file", ext |-> "ts", lines |-> MarkedFile]
       [] path = "stale.ts" -> [kind |-> "file", ext |-> "ts", lines |-> StaleIndexed]
       [] path = "fresh.ts" -> [kind |-> "file", ext |-> "ts", lines |-> FreshIndexed]
       [] path = "n.txt" -> [kind |-> "file", ext |-> "none", lines |-> <<CodeLine>>]
       [] path = "locked.ts" -> [kind |-> "locked", ext |-> "ts", lines |-> MarkedFile]
       [] path = "src" -> [kind |-> "dir", ext |-> "none", lines |-> <<>>]
       [] path = "gone.ts" -> [kind |-> "missing", ext |-> "ts", lines |-> <<>>]]

\* existsSync(pattern) and (await stat(pattern)).isFile()
IsFile(disk, path) == disk[path].kind \in {"file", "locked"}

\* [...new Set(files)]: the first occurrence of each path, in order
RECURSIVE Dedupe(_)
Dedupe(paths) ==
  IF paths = <<>> THEN <<>>
  ELSE LET front == Dedupe(SubSeq(paths, 1, Len(paths) - 1))
           last == paths[Len(paths)]
       IN IF \E k \in 1..Len(front) : front[k] = last THEN front ELSE Append(front, last)

\* the files collected from the patterns
Collected(disk, patterns) ==
  Dedupe(SelectSeq(patterns, LAMBDA path : IsFile(disk, path)))

\* a variant that does not count a failed file
TallyWithoutFailed(results, counter) ==
  IF counter = "failed" THEN results ELSE [results EXCEPT ![counter] = @ + 1]

\* results.success++ / results.skipped++ / results.failed++
Tally(results, counter) == [results EXCEPT ![counter] = @ + 1]

\* the three branches of the try block for one file: the counter each one
\* increments and the lines of the file afterwards; a rejected readFile lands
\* in the catch block
\* options.verify: verifyIndex(file)
VerifyOutcome(f) ==
  IF f.kind = "locked" THEN [counter |-> "failed", lines |-> f.lines]
  ELSE [counter |-> IF verifyIndex(f.lines, f.ext).valid THEN "success" ELSE "failed",
        lines |-> f.lines]

\* options.remove: removeIndex(file)
RemoveOutcome(f) ==
  IF f.kind = "locked" THEN [counter |-> "failed", lines |-> f.lines]
  ELSE LET r == removeIndex(f.lines)
       IN [counter |-> IF r.result.removed THEN "success" ELSE "skipped",
           lines |-> r.content]

\* otherwise: indexFile(file, options)
GenerateOutcome(minLines, f) ==
  IF f.kind = "locked" THEN [counter |-> "failed", lines |-> f.lines]
  ELSE LET r == cliIndexFile(f.lines, f.ext, minLines, "t1")
       IN [counter |-> IF "skipped" \in DOMAIN r.result THEN "skipped" ELSE "success",
           lines |-> r.content]

\* the end of one turn of the loop: the counter, the file on disk, the next file
TurnDone(path, o) ==
  batch' = [batch EXCEPT !.i = @ + 1,
                         !.results = Tally(@, o.counter),
                         !.processed = Append(@, path),
                         !.disk[path].lines = o.lines]

InitBatch ==
  /\ \E mode \in Modes, minLines \in {0, MinLinesOpt},
        patterns \in {<<>>} \cup SeqsUpTo(DOMAIN Disk, MaxArgs) :
       /\ (minLines # 0 => mode = "generate")
       /\ batch = [mode |-> mode, minLines |-> minLines, patterns |-> patterns,
                   disk |-> Disk, files |-> <<>>, i |-> 0,
                   results |-> [success |-> 0, skipped |-> 0, failed |-> 0],
                   processed |-> <<>>, phase |-> "args", exit |-> -1]
  /\ ext = "ts" /\ lines = <<EmptyLine>>
  /\ pc = "start" /\ out = <<>> /\ inflight = NoOp
  /\ companion = NoCompanion /\ before = <<>> /\ writes = 0
  /\ secs = <<>> /\ total = 0 /\ block = <<>> /\ parsed = <<>>

\* no pattern among the arguments: process.exit(1)
NoPattern ==
  /\ batch.phase = "args"
  /\ batch.patterns = <<>>
  /\ batch' = [batch EXCEPT !.phase = "exited", !.exit = 1]
  /\ UNCHANGED <<ext, lines, companion, pc, out, before, writes, secs, total, block, parsed, inflight>>

\* the patterns that are files, without duplicates; process.exit(0) when none
CollectFiles ==
  /\ batch.phase = "args"
  /\ batch.patterns # <<>>
  /\ LET files == Collected(batch.disk, batch.patterns)
     IN batch' = IF files = <<>>
                 THEN [batch EXCEPT !.phase = "exited", !.exit = 0]
                 ELSE [batch EXCEPT !.phase = "loop", !.files = files, !.i = 1]
  /\ UNCHANGED <<ext, lines, companion, pc, out, before, writes, secs, total, block, parsed, inflight>>

\* one turn of the for-loop over the files in verify mode, try and catch included
VerifyFile ==
  /\ batch.phase = "loop"
  /\ batch.i <= Len(batch.files)
  /\ batch.mode = "verify"
  /\ TurnDone(batch.files[batch.i], VerifyOutcome(batch.disk[batch.files[batch.i]]))
  /\ UNCHANGED <<ext, lines, companion, pc, out, before, writes, secs, total, block, parsed, inflight>>

\* one turn in remove mode
RemoveFile ==
  /\ batch.phase = "loop"
  /\ batch.i <= Len(batch.files)
  /\ batch.mode = "remove"
  /\ TurnDone(batch.files[batch.i], RemoveOutcome(batch.disk[batch.files[batch.i]]))
  /\ UNCHANGED <<ext, lines, companion, pc, out, before, writes, secs, total, block, parsed, inflight>>

\* one turn in generate mode
GenerateFile ==
  /\ batch.phase = "loop"
  /\ batch.i <= Len(batch.files)
  /\ batch.mode = "generate"
  /\ TurnDone(batch.files[batch.i],
              GenerateOutcome(batch.minLines, batch.disk[batch.files[batch.i]]))
  /\ UNCHANGED <<ext, lines, companion, pc, out, before, writes, secs, total, block, parsed, inflight>>

\* one turn of the for-loop over the files
ProcessFile ==
  \/ VerifyFile
  \/ RemoveFile
  \/ GenerateFile

\* after the loop main logs the counters and returns: the process ends with
\* exit code 0
FinishBatch ==
  /\ batch.phase = "loop"
  /\ batch.i > Len(batch.files)
  /\ batch' = [batch EXCEPT !.phase = "done", !.exit = 0]
  /\ UNCHANGED <<ext, lines, companion, pc, out, before, writes, secs, total, block, parsed, inflight>>

NextBatch ==
  \/ NoPattern
  \/ CollectFiles
  \/ ProcessFile
  \/ FinishBatch

SpecBatch == InitBatch /\ [][NextBatch]_vars

(***************************************************************************)
(* Properties of the scanners (SpecScan)                                   *)
(***************************************************************************)
\* what the explicit scanner that produced `out` takes line i for
Marker(i) ==
  IF pc = "detectSectionsExplicit"
  THEN IF ServerRegionStart(ext, lines[i]) # <<>> THEN "start"
       ELSE IF ServerRegionEnd(ext, lines[i]) THEN "end" ELSE "none"
  ELSE IF LibRegionStart(ext, lines[i]) # <<>> THEN "start"
       ELSE IF LibRegionEnd(ext, lines[i]) THEN "end"
       ELSE IF LibSectionMarker(ext, lines[i]) # <<>> THEN "start" ELSE "none"

\* the section name the auto scanner that produced `out` detects at line i
Detected(i) ==
  IF pc = "detectSectionsAuto"
  THEN LET m == ServerAutoMatch(ext, lines[i]) IN IF m = <<>> THEN <<>> ELSE m[1].name
  ELSE LET d == CliAutoMatch(ext, lines[i]) IN IF d = <<>> THEN <<>> ELSE d[1]

ExplicitDone == pc \in {"detectSectionsExplicit", "findSections", "findExplicitSections"}

AutoDone == pc \in {"detectSectionsAuto", "cliDetectSectionsAuto"}

MarkersAfter(a) == {m \in (a + 1)..Len(lines) : Marker(m) # "none"}

SectionsFrom(a) == {k \in 1..Len(out) : out[k].line = a}

\* C5: no two sections of the list produced by the explicit scanner or by the
\* auto-detection scanner carry the same name
C5_UniqueNames ==
  pc \in {"detectSectionsExplicit", "detectSectionsAuto"} =>
    \A i, j \in 1..Len(out) : i # j => out[i].name # out[j].name

C8_Greedy ==
  AutoDone =>
    \A j, k \in 1..Len(lines) :
      (/\ j < k
       /\ Detected(j) # <<>> /\ Detected(k) # <<>> /\ Detected(j) # Detected(k)
       /\ \A m \in (j + 1)..(k - 1) : Detected(m) = <<>>)
      => /\ \E x \in 1..Len(out) :
              /\ out[x].name = Detected(j)
              /\ out[x].line <= j /\ out[x].end = k - 1
         /\ \E y \in 1..Len(out) : out[y].name = Detected(k) /\ out[y].line = k

C8_Witness ==
  /\ pc = "detectSectionsAuto" /\ ext = "ts"
  /\ lines = <<ImportLine, CodeLine, CodeLine, ClassLine>>
  /\ Len(out) = 2
  /\ out[1].name = <<"imports">> /\ out[1].line = 1 /\ out[1].end = 3
  /\ out[2].name = <<"classes">> /\ out[2].line = 4

\* C9: in every auto-detection scanner the section still open at end of input
\* is emitted with end equal to the file's last line
C9_LastSectionEnd ==
  (AutoDone /\ out # <<>>) => out[Len(out)].end = Len(lines)

(***************************************************************************)
(* Properties of the codec (SpecCodec)                                     *)
(***************************************************************************)
\* C1: parsing the block serialized from (secs, total) yields exactly one
\* entry per section of secs, with its name, line, end, size and description
C1_RoundTrip ==
  pc = "parseIndex" =>
    /\ parsed # <<>>
    /\ DOMAIN parsed[1].sections = {secs[i].name : i \in 1..Len(secs)}
    /\ \A i \in 1..Len(secs) :
         LET e == parsed[1].sections[secs[i].name]
         IN /\ e.line = secs[i].line
            /\ e.end = secs[i].end
            /\ e.size = secs[i].end - secs[i].line + 1
            /\ e.desc = SectionDesc(secs[i])

(***************************************************************************)
(* Properties of get_file_index and generate (Spec)                        *)
(***************************************************************************)
GetIndexDone == pc \in {"get_file_index", "get_file_index_v21"}

\* what the companion document of the file yields
CompanionSections ==
  LET path == findCompanionMarkdown(companion)
  IN IF path = <<>> THEN <<>>
     ELSE parseCompanionMarkdown(companion[path[1]][1]).sections

SameRanges(a, b) ==
  /\ Len(a) = Len(b)
  /\ \A i \in 1..Len(a) :
       a[i].name = b[i].name /\ a[i].line = b[i].line /\ a[i].end = b[i].end

IsMain(sections, totalLines) ==
  /\ Len(sections) = 1
  /\ sections[1].name = <<"main">>
  /\ sections[1].line = 1
  /\ sections[1].end = totalLines

C3_Coverage ==
  /\ GetIndexDone =>
       /\ out.sections # <<>>
       /\ (/\ CompanionSections = <<>>
           /\ detectSectionsExplicit(before, ext) = <<>>
           /\ detectSectionsAuto(before, ext) = <<>>)
          => IsMain(out.sections, Len(before))
  /\ (pc = "indexFile" /\ "sections" \in DOMAIN out) =>
       /\ out.sections # <<>>
       /\ (/\ findExplicitSections(before, ext) = <<>>
           /\ cliDetectSectionsAuto(before, ext) = <<>>)
          => IsMain(out.sections, Len(before))
  /\ (pc = "libIndexFile" /\ "sections" \in DOMAIN out) =>
       /\ out.sections # <<>>
       /\ findSections(before, ext) = <<>> => IsMain(out.sections, Len(before))

C3_Witness ==
  /\ pc = "get_file_index"
  /\ ext = "none"
  /\ before = EmptyFile
  /\ IsMain(out.sections, 1)

\* C4: the sections returned by get_file_index are sorted by start ascending,
\* each has start <= end, and no line belongs to two of them
C4_OrderedDisjoint ==
  GetIndexDone =>
    /\ \A i, j \in 1..Len(out.sections) :
         i < j => out.sections[i].line <= out.sections[j].line
    /\ \A i \in 1..Len(out.sections) : out.sections[i].line <= out.sections[i].end
    /\ \A i, j \in 1..Len(out.sections) :
         i # j => \/ out.sections[i].end < out.sections[j].line
                  \/ out.sections[j].end < out.sections[i].line

(***************************************************************************)
(* Properties of verify (SpecVerify)                                       *)
(***************************************************************************)
Errors(o) == IF "errors" \in DOMAIN o THEN o.errors ELSE <<>>

\* the stored sections and the recomputed explicit sections of the file read
Stored == parseExistingIndex(before)[1].sections

Recomputed == findExplicitSections(before, ext)

DriftFlagged(e) ==
  \E k \in 1..Len(Errors(out)) :
    /\ Errors(out)[k].kind = "line-drift"
    /\ Errors(out)[k].name = e.name
    /\ Errors(out)[k].actual = e.line

\* C10: for a section both stored and recomputed, verify flags line drift
\* exactly when the two start lines differ by more than 5
C10_Tolerance ==
  (pc = "verifyIndex" /\ parseExistingIndex(before) # <<>>) =>
    \A k \in 1..Len(Recomputed) :
      LET e == Recomputed[k]
      IN e.name \in DOMAIN Stored =>
           (DriftFlagged(e) <=>
              (Stored[e.name].line - e.line > 5 \/ e.line - Stored[e.name].line > 5))

\* one section five lines off and not flagged, one six lines off and flagged
C10_Witness ==
  /\ pc = "verifyIndex"
  /\ parseExistingIndex(before) # <<>>
  /\ \E k \in 1..Len(Recomputed) :
       /\ Recomputed[k].name \in DOMAIN Stored
       /\ Stored[Recomputed[k].name].line - Recomputed[k].line = 5
       /\ ~DriftFlagged(Recomputed[k])
  /\ \E k \in 1..Len(Recomputed) :
       /\ Recomputed[k].name \in DOMAIN Stored
       /\ Stored[Recomputed[k].name].line - Recomputed[k].line = 6
       /\ DriftFlagged(Recomputed[k])

\* C11: verify is valid exactly when the file holds a block, no stored section
\* has start or end beyond the line count, every recomputed explicit section
\* has a stored entry of its name, and no such pair drifts by more than 5;
\* without a block the result is invalid with reason no-index
C11_ValidExactly ==
  pc = "verifyIndex" =>
    /\ out.valid <=>
         /\ parseExistingIndex(before) # <<>>
         /\ \A n \in DOMAIN Stored :
              Stored[n].line <= Len(before) /\ Stored[n].end <= Len(before)
         /\ \A k \in 1..Len(Recomputed) :
              /\ Recomputed[k].name \in DOMAIN Stored
              /\ Stored[Recomputed[k].name].line - Recomputed[k].line <= 5
              /\ Recomputed[k].line - Stored[Recomputed[k].name].line <= 5
    /\ parseExistingIndex(before) = <<>> =>
         out = [valid |-> FALSE, reason |-> "no-index"]

(***************************************************************************)
(* Properties of the written file (Spec)                                   *)
(***************************************************************************)
\* a generate command that wrote the file
Generated == pc \in {"indexFile", "libIndexFile"} /\ "action" \in DOMAIN out

TextBefore == Join(before)

TextAfter == Join(lines)

BlockStarts(text) == {p \in 1..Len(text) : BlockEndAt(text, p) # 0}

HasDirective == Len(before[1]) >= 1 /\ before[1][1] = "#!"

\* text t is newlines followed by text r
FollowedBy(t, r) ==
  /\ Len(t) >= Len(r)
  /\ SubSeq(t, Len(t) - Len(r) + 1, Len(t)) = r
  /\ \A i \in 1..(Len(t) - Len(r)) : t[i] = "\n"

\* C13: generate on a file without a block puts the block at the top, or right
\* after a leading #! line, which stays the first line of the output even when
\* it is the only line of the file; the original content follows the block
C13_InsertPlace ==
  (Generated /\ parseIndex(before) = <<>>) =>
    /\ parseIndex(lines) # <<>>
    /\ LET new == parseIndex(lines)[1]
           after == SubSeq(TextAfter, new.endIndex + 1, Len(TextAfter))
       IN IF HasDirective
          THEN /\ lines[1] = before[1]
               /\ new.startIndex = Len(before[1]) + 1
               /\ FollowedBy(after, Join(Tail(before)))
          ELSE /\ new.startIndex = 0
               /\ FollowedBy(after, TextBefore)

\* the newlines that follow position e of the text
NewlinesAfter(text, e) ==
  LET stop == {i \in (e + 1)..Len(text) : text[i] # "\n"}
  IN IF stop = {} THEN Len(text) - e ELSE SetMin(stop) - e - 1

\* C14: remove on a file with a block writes the content with the block and
\* the blank lines right after it spliced out and the rest as it was; on a
\* file without a block it reports removed = false and leaves the file alone
C14_Remove ==
  pc = "removeIndex" =>
    IF parseExistingIndex(before) = <<>>
    THEN out.removed = FALSE /\ lines = before
    ELSE LET old == parseExistingIndex(before)[1]
         IN /\ out.removed = TRUE
            /\ TextAfter =
                 SubSeq(TextBefore, 1, old.startIndex)
                 \o SubSeq(TextBefore,
                           old.endIndex + NewlinesAfter(TextBefore, old.endIndex) + 1,
                           Len(TextBefore))

\* remove on a block that follows an interpreter directive
C14_Witness ==
  /\ pc = "removeIndex"
  /\ out.removed = TRUE
  /\ parseExistingIndex(before)[1].startIndex > 0
  /\ lines = <<ShebangLine, CodeLine>>

(***************************************************************************)
(* Properties of read_section (SpecServer)                                 *)
(***************************************************************************)
ReadDone == pc \in {"read_section", "read_section_v21"}

\* the section_name of the request, as the answer quotes it
Requested == IF "error" \in DOMAIN out THEN out.error ELSE out.section

\* the index the request was answered from
IndexRead ==
  IF pc = "read_section" THEN mcpGenerateIndex(before, ext).sections
  ELSE mcpGenerateIndexV21(before, ext, companion).sections

\* the lines a..b of the file, joined by newlines
LinesText(a, b) ==
  Join([i \in 1..(IF b > Len(before) THEN Len(before) - a + 1 ELSE b - a + 1) |->
          before[a + i - 1]])

\* C15: read_section with the name of a section of the index gives that
\* section's start, end and the text of the lines start..end; with any other
\* name it gives an error payload listing the names of all sections
C15_ReadSection ==
  ReadDone =>
    IF \E i \in 1..Len(IndexRead) : IndexRead[i].name = Requested
    THEN /\ "error" \notin DOMAIN out
         /\ \E i \in 1..Len(IndexRead) :
              /\ IndexRead[i].name = Requested
              /\ out.lineStart = IndexRead[i].line
              /\ out.lineEnd = IndexRead[i].end
              /\ out.content = LinesText(IndexRead[i].line, IndexRead[i].end)
    ELSE /\ "error" \in DOMAIN out
         /\ out.availableSections = [i \in 1..Len(IndexRead) |-> IndexRead[i].name]

\* a section of two lines read by name, and an unknown name on the same index
C15_Witness ==
  /\ ReadDone
  /\ "error" \notin DOMAIN out
  /\ out.section = NameA
  /\ before = <<CodeLine, RegionLine(NameA), ImportLine>>
  /\ out.lineStart = 2 /\ out.lineEnd = 3
  /\ out.content = RegionLine(NameA) \o <<"\n">> \o ImportLine

(***************************************************************************)
(* Properties of failure reporting (Spec)                                  *)
(***************************************************************************)
\* C16: generate and remove report every failure as a result value and throw
\* nothing; a file of an unregistered extension is reported as skipped and its
\* content is left as it was
C16_NoThrow ==
  pc \in {"indexFile", "libIndexFile", "removeIndex"} =>
    /\ "thrown" \notin DOMAIN out
    /\ (pc # "removeIndex" /\ ~Registered(ext)) =>
         /\ "skipped" \in DOMAIN out
         /\ out.skipped = TRUE
         /\ lines = before

(***************************************************************************)
(* Properties of a CLI run (SpecBatch)                                     *)
(***************************************************************************)
\* the distinct files among the patterns of the command line
BatchFiles ==
  {batch.patterns[k] : k \in {j \in 1..Len(batch.patterns) :
                                 IsFile(Disk, batch.patterns[j])}}

Counted == batch.results.success + batch.results.skipped + batch.results.failed

\* C17: every file handled so far, failed ones included, was processed once and
\* raised one counter, and when the batch ends every distinct file was
\* processed, so the counters add up to the number of distinct files
C17_BatchIsolation ==
  batch # NoBatch =>
    /\ Counted = Len(batch.processed)
    /\ \A j, k \in 1..Len(batch.processed) :
         j # k => batch.processed[j] # batch.processed[k]
    /\ batch.phase = "done" =>
         /\ {batch.processed[k] : k \in 1..Len(batch.processed)} = BatchFiles
         /\ Counted = Cardinality(BatchFiles)

\* a batch of three files ended although its first file could not be read
C17_Witness ==
  /\ batch # NoBatch
  /\ batch.phase = "done"
  /\ batch.files = <<"locked.ts", "a.ts", "n.txt">>
  /\ batch.results = [success |-> 1, skipped |-> 1, failed |-> 1]

\* C18: a run ends with a non-zero exit code when the failed counter is above
\* 0 at the end of the batch, and with zero when it is 0
C18_ExitCode ==
  (batch # NoBatch /\ batch.phase = "done") =>
    (batch.exit # 0 <=> batch.results.failed > 0)

(***************************************************************************)
(* Properties of the minimal block variant (SpecMinimal)                   *)
(***************************************************************************)
\* C19: parsing a block with the columns Section | Line | End only gives one
\* entry per data row, with the row's name, start and end
C19_MinimalRows ==
  pc = "parseMinimal" =>
    /\ parsed # <<>>
    /\ DOMAIN parsed[1].sections = {secs[i].name : i \in 1..Len(secs)}
    /\ \A i \in 1..Len(secs) :
         /\ parsed[1].sections[secs[i].name].line = secs[i].line
         /\ parsed[1].sections[secs[i].name].end = secs[i].end

\* C20: every section value that get_file_index returns and every section
\* value parsed from a stored block, with or without a Size column, has
\* size = end - start + 1
C20_DerivedSize ==
  /\ GetIndexDone =>
       \A i \in 1..Len(out.sections) :
         out.sections[i].size = out.sections[i].end - out.sections[i].line + 1
  /\ (pc \in {"parseIndex", "parseMinimal"} /\ parsed # <<>>) =>
       \A n \in DOMAIN parsed[1].sections :
         parsed[1].sections[n].size
           = parsed[1].sections[n].end - parsed[1].sections[n].line + 1

(***************************************************************************)
(* Provenance of the index of get_file_index v2.1 (SpecServer)             *)
(***************************************************************************)
\* the step of the resolution chain that yields the sections of the file
Strategy ==
  IF CompanionSections # <<>> THEN "markdown"
  ELSE IF detectSectionsExplicit(before, ext) # <<>> THEN "regions"
  ELSE IF detectSectionsAuto(before, ext) # <<>> THEN "auto"
  ELSE "fallback"

\* C21: the source reported by get_file_index names the one step that produced
\* the returned sections: the companion, the explicit markers, auto-detection
\* or the fallback; with the single section main it is the fallback value and
\* not the auto value
C21_Provenance ==
  pc = "get_file_index_v21" => out.source = Strategy

(***************************************************************************)
(* SpecInterleave: generate and remove as a readFile, a computation on the *)
(* content read and a writeFile, with a crash or the write of another      *)
(* process between the two awaits                                          *)
(***************************************************************************)
MaxRaceLines == 2

Ops == {"indexFile", "libIndexFile", "removeIndex"}

\* what another process writes to the path: a line appended, a marker on top
Edits(ls) == {Append(ls, CodeLine), <<RegionLine(NameB)>> \o ls}

\* a variant that reads the file again at the time of the write
ContentOnDisk(op) == lines

\* const content = await readFile(filePath, 'utf-8')
ContentRead(op) == op.content

Running == inflight # NoOp /\ inflight[1].phase = "read"

InitInterleave ==
  /\ ext \in Exts
  /\ lines \in Files(MaxRaceLines)
  /\ companion = NoCompanion /\ pc = "start" /\ out = <<>>
  /\ before = <<>> /\ writes = 0 /\ batch = NoBatch /\ inflight = NoOp
  /\ secs = <<>> /\ total = 0 /\ block = <<>> /\ parsed = <<>>

\* the operation is called and its readFile resolves
BeginOp ==
  /\ ~Running
  /\ writes < MaxWrites
  /\ \E o \in Ops, minLines \in {0, MinLinesOpt} :
       /\ (minLines # 0 => o = "indexFile")
       /\ inflight' = <<[op |-> o, minLines |-> minLines, content |-> lines,
                         theirs |-> <<>>, phase |-> "read"]>>
  /\ pc' = "read"
  /\ UNCHANGED <<ext, lines, companion, out, before, writes, batch, secs, total, block,
                 parsed>>

\* another process writes the file while the operation is between its awaits
ExternalEdit ==
  /\ Running
  /\ inflight[1].theirs = <<>>
  /\ writes < MaxWrites
  /\ \E edited \in Edits(lines) :
       /\ lines' = edited
       /\ inflight' = <<[inflight[1] EXCEPT !.theirs = <<edited>>]>>
  /\ writes' = writes + 1
  /\ UNCHANGED <<ext, companion, pc, out, before, batch, secs, total, block, parsed>>

\* the process dies after readFile and before writeFile
Crash ==
  /\ Running
  /\ inflight' = <<[inflight[1] EXCEPT !.phase = "crashed"]>>
  /\ pc' = "crashed"
  /\ UNCHANGED <<ext, lines, companion, out, before, writes, batch, secs, total, block,
                 parsed>>

\* the rest of an operation: writeFile(filePath, newContent) when wrote, the
\* return value
Finish(r, wrote) ==
  /\ lines' = IF wrote THEN r.content ELSE lines
  /\ writes' = IF wrote THEN writes + 1 ELSE writes
  /\ out' = r.result
  /\ before' = inflight[1].content
  /\ inflight' = <<[inflight[1] EXCEPT !.phase = IF wrote THEN "written" ELSE "returned"]>>
  /\ UNCHANGED <<ext, companion, batch, secs, total, block, parsed>>

\* CLI indexFile from its readFile on
FinishIndexFile ==
  /\ Running /\ inflight[1].op = "indexFile"
  /\ pc' = "indexFile"
  /\ LET r == cliIndexFile(ContentRead(inflight[1]), ext, inflight[1].minLines, "t1")
     IN Finish(r, "success" \in DOMAIN r.result)

\* library indexFile from its readFile on
FinishLibIndexFile ==
  /\ Running /\ inflight[1].op = "libIndexFile"
  /\ pc' = "libIndexFile"
  /\ LET r == indexFile(ContentRead(inflight[1]), ext, "t1")
     IN Finish(r, "thrown" \notin DOMAIN r.result)

\* removeIndex from its readFile on
FinishRemoveIndex ==
  /\ Running /\ inflight[1].op = "removeIndex"
  /\ pc' = "removeIndex"
  /\ LET r == removeIndex(ContentRead(inflight[1]))
     IN Finish(r, r.result.removed)

NextInterleave ==
  \/ BeginOp
  \/ ExternalEdit
  \/ Crash
  \/ FinishIndexFile
  \/ FinishLibIndexFile
  \/ FinishRemoveIndex

SpecInterleave == InitInterleave /\ [][NextInterleave]_vars

\* the content an operation writes for the content it read
NewContent(op) ==
  IF op.op = "indexFile" THEN cliIndexFile(op.content, ext, op.minLines, "t1").content
  ELSE IF op.op = "libIndexFile" THEN indexFile(op.content, ext, "t1").content
  ELSE removeIndex(op.content).content

\* the file as the other writers left it
Theirs(op) == IF op.theirs = <<>> THEN op.content ELSE op.theirs[1]

\* C22: generate and remove read, compute and write without a transaction: an
\* operation that crashes or returns between its read and its write leaves the
\* file as it was, and an operation that writes leaves what it computed from
\* the content it read, whatever another process wrote to the file meanwhile
C22_ReadThenWrite ==
  inflight # NoOp =>
    /\ inflight[1].phase \in {"crashed", "returned", "read"} => lines = Theirs(inflight[1])
    /\ inflight[1].phase = "written" => lines = NewContent(inflight[1])

\* a lost update: generate wrote its block over the marker line that another
\* process had added after generate's read
C22_Witness ==
  /\ inflight # NoOp
  /\ inflight[1].phase = "written"
  /\ inflight[1].op = "indexFile"
  /\ inflight[1].theirs # <<>>
  /\ \E k \in 1..Len(inflight[1].theirs[1]) : inflight[1].theirs[1][k] = RegionLine(NameB)
  /\ \A k \in 1..Len(lines) : lines[k] # RegionLine(NameB)

(***************************************************************************)
(* SpecReadOnly: the requests of the agent-facing server and verify, on    *)
(* files with and without a companion document or an embedded block        *)
(***************************************************************************)
\* tools/call with a name that is no tool: the throw lands in the catch block
UnknownTool ==
  /\ pc' = "unknown_tool"
  /\ before' = lines
  /\ out' = [isError |-> TRUE, error |-> "Unknown tool"]
  /\ UNCHANGED <<ext, lines, companion, writes, secs, total, block, parsed, batch, inflight>>

\* files that generate has written, as written and with a marker line added since
IndexedFiles == {cliIndexFile(f, "ts", 0, "t1").content : f \in Files(MaxRaceLines)}

EditedFiles == {Append(f, RegionLine(NameB)) : f \in IndexedFiles}

InitReadOnly ==
  \/ Init
  \/ /\ Idle
     /\ ext \in Exts
     /\ lines \in IndexedFiles \cup EditedFiles
     /\ pc = "start" /\ out = <<>>

NextReadOnly ==
  \/ GetFileIndex
  \/ GetFileIndexV21
  \/ ReadSection
  \/ ReadSectionV21
  \/ UnknownTool
  \/ VerifyIndex

SpecReadOnly == InitReadOnly /\ [][NextReadOnly]_vars

\* C23: no get_file_index or read_section request, served or failed, no call
\* of an unknown tool and no verify changes the content of the file or of a
\* companion document
C23_ReadOnly == [][lines' = lines /\ companion' = companion]_vars

\* read_section has returned the text of a section that a companion lists
C23_Witness ==
  /\ pc = "read_section_v21"
  /\ "content" \in DOMAIN out
  /\ CompanionSections # <<>>
  /\ lines = before

(***************************************************************************)
(* Generate against get_file_index (Spec)                                  *)
(***************************************************************************)
GenerateDone == pc \in {"indexFile", "libIndexFile"} /\ "sections" \in DOMAIN out

\* C24: the section list that generate serializes, in the CLI and in the
\* library, has the names and ranges that get_file_index returns for the
\* content generate read: the companion's, else the explicit markers', else
\* auto-detection's, else the single fallback section
C24_SameChain ==
  GenerateDone =>
    SameRanges(out.sections, mcpGenerateIndexV21(before, ext, companion).sections)

(***************************************************************************)
(* Verify and the explicit markers (SpecReadOnly)                          *)
(***************************************************************************)
VerifyDone == pc = "verifyIndex" /\ parseExistingIndex(before) # <<>>

InRange(s) == s.line <= Len(before) /\ s.end <= Len(before)

Flagged(name) ==
  \/ "exceed" \in DOMAIN out /\ name \in out.exceed
  \/ \E k \in 1..Len(Errors(out)) : Errors(out)[k].name = name

\* C25: on a file with a stored block and no explicit marker, verify returns
\* valid whenever every stored start and end is within the line count of the
\* file, wherever auto-detection would place sections; and a stored section
\* that no explicit section of the file is named after is flagged only when
\* it is out of range
C25_ExplicitOnly ==
  VerifyDone =>
    /\ (Recomputed = <<>> /\ \A n \in DOMAIN Stored : InRange(Stored[n])) => out.valid
    /\ \A n \in DOMAIN Stored :
         (InRange(Stored[n]) /\ \A k \in 1..Len(Recomputed) : Recomputed[k].name # n)
           => ~Flagged(n)

\* verify returned valid for a stored section of a file without markers in
\* which auto-detection finds a section the block does not list
C25_Witness ==
  /\ VerifyDone
  /\ Recomputed = <<>>
  /\ DOMAIN Stored # {}
  /\ cliDetectSectionsAuto(before, ext) # <<>>
  /\ out.valid

(***************************************************************************)
(* Generate, then verify, generate or remove on the file as written (Spec) *)
(***************************************************************************)
\* generate has written the file
GenerateWrote == GenerateDone /\ lines # before

\* the number on the @total-lines line of the block of a file
StoredTotalLines(ls) ==
  LET at == {k \in 1..Len(ls) : Len(ls[k]) >= 6 /\ ls[k][4] = "@total-lines"}
  IN ParseInt(SubSeq(ls[SetMin(at)], 6, Len(ls[SetMin(at)])))

\* C26: verify on the file that generate has just written returns valid: the
\* stored ranges are the ranges the explicit scanner computes on the file as
\* written and the stored total-line count is its line count
C26_GenerateValid ==
  GenerateWrote =>
    /\ verifyIndex(lines, ext).valid
    /\ parseExistingIndex(lines) # <<>>
    /\ StoredTotalLines(lines) = Len(lines)
    /\ \A k \in 1..Len(findExplicitSections(lines, ext)) :
         LET e == findExplicitSections(lines, ext)[k]
             stored == parseExistingIndex(lines)[1].sections
         IN /\ e.name \in DOMAIN stored
            /\ stored[e.name].line = e.line
            /\ stored[e.name].end = e.end

\* a line of a file that is not the @generated line of a block
NotStamp(line) == ~(Len(line) >= 4 /\ line[4] = "@generated")

\* generate ran on a file that generate itself had written
Regenerated == Generated /\ parseIndex(before) # <<>> /\ writes = 2

\* C27: generate on a file that generate produced writes the file it read but
\* for the @generated line: the section rows and the total-line count of the
\* block do not change on the second run
C27_Idempotent ==
  Regenerated =>
    /\ Len(lines) = Len(before)
    /\ \A k \in 1..Len(lines) : NotStamp(before[k]) => lines[k] = before[k]

(***************************************************************************)
(* SpecRoundTrip: generate, then remove, on a file without a block         *)
(***************************************************************************)
BlankFiles ==
  {<<EmptyLine, CodeLine>>, <<EmptyLine, EmptyLine, CodeLine>>,
   <<ShebangLine, EmptyLine, CodeLine>>, <<CodeLine, EmptyLine>>}

InitRoundTrip ==
  /\ Idle
  /\ ext = "ts"
  /\ lines \in Files(MaxRaceLines) \cup BlankFiles
  /\ pc = "start" /\ out = <<>>

\* CLI generate on the original file
GenerateFirst ==
  /\ pc = "start"
  /\ \E minLines \in {0, MinLinesOpt}, now \in Stamps :
       LET r == cliIndexFile(lines, ext, minLines, now)
       IN /\ out' = r.result
          /\ lines' = r.content
          /\ writes' = IF "success" \in DOMAIN r.result THEN writes + 1 ELSE writes
  /\ pc' = "indexFile"
  /\ before' = lines
  /\ UNCHANGED <<ext, companion, secs, total, block, parsed, batch, inflight>>

\* CLI --remove on the file generate has written
RemoveAfter ==
  /\ pc = "indexFile"
  /\ LET r == removeIndex(lines)
     IN /\ out' = r.result
        /\ lines' = r.content
        /\ writes' = IF r.result.removed THEN writes + 1 ELSE writes
  /\ pc' = "removeIndex"
  /\ before' = lines
  /\ UNCHANGED <<ext, companion, secs, total, block, parsed, batch, inflight>>

NextRoundTrip ==
  \/ GenerateFirst
  \/ RemoveAfter

SpecRoundTrip == InitRoundTrip /\ [][NextRoundTrip]_vars

\* C28: generate and then remove on a file without a block, with or without
\* a first line "#!" and leading blank lines, leaves the content the file had
C28_RoundTrip ==
  (pc = "indexFile" /\ "success" \in DOMAIN out) => removeIndex(lines).content = before

(***************************************************************************)
(* SpecSnapshot: read_section as its two reads of the file, the one for    *)
(* the lines and the one inside generateIndex, with the write of another   *)
(* process between them                                                    *)
(***************************************************************************)
\* readSection from `const index = await generateIndex(filePath)` on: the
\* lines come from the first read, the index from the file as it is now
readSectionOn(linesRead, index, name) ==
  LET section == FindByName(index.sections, name)
  IN IF section = <<>> THEN NotFound(index.sections, name)
     ELSE SectionResult(linesRead, section[1])

InitSnapshot ==
  /\ Idle
  /\ ext \in Exts
  /\ lines \in Files(MaxRaceLines)
  /\ pc = "start" /\ out = <<>>

\* read_section is called and its own readFile resolves
BeginReadSection ==
  /\ ~Running
  /\ \E name \in RequestNames, version \in {"read_section", "read_section_v21"} :
       inflight' = <<[op |-> version, name |-> name, content |-> lines,
                      theirs |-> <<>>, phase |-> "read"]>>
  /\ pc' = "read"
  /\ UNCHANGED <<ext, lines, companion, out, before, writes, batch, secs, total, block,
                 parsed>>

\* generateIndex reads the file again; v2.0
FinishReadSection ==
  /\ Running /\ inflight[1].op = "read_section"
  /\ out' = readSectionOn(inflight[1].content, mcpGenerateIndex(lines, ext),
                          inflight[1].name)
  /\ pc' = "read_section"
  /\ before' = lines
  /\ inflight' = <<[inflight[1] EXCEPT !.phase = "returned"]>>
  /\ UNCHANGED <<ext, lines, companion, writes, batch, secs, total, block, parsed>>

\* generateIndex reads the file again; v2.1
FinishReadSectionV21 ==
  /\ Running /\ inflight[1].op = "read_section_v21"
  /\ out' = readSectionOn(inflight[1].content, mcpGenerateIndexV21(lines, ext, companion),
                          inflight[1].name)
  /\ pc' = "read_section_v21"
  /\ before' = lines
  /\ inflight' = <<[inflight[1] EXCEPT !.phase = "returned"]>>
  /\ UNCHANGED <<ext, lines, companion, writes, batch, secs, total, block, parsed>>

NextSnapshot ==
  \/ BeginReadSection
  \/ ExternalEdit
  \/ FinishReadSection
  \/ FinishReadSectionV21

SpecSnapshot == InitSnapshot /\ [][NextSnapshot]_vars

\* C29: the text read_section returns is the lines lineStart..lineEnd of the
\* file content from which the section's range was computed, also when
\* another process writes the file while the request is in flight
C29_Snapshot ==
  (pc \in {"read_section", "read_section_v21"} /\ "content" \in DOMAIN out) =>
    out.content = Join(Slice(before, out.lineStart, out.lineEnd))

(***************************************************************************)
(* Ranges of get_file_index within the file (SpecServer)                   *)
(***************************************************************************)
\* C30: every section that get_file_index returns, the companion's included,
\* has 1 <= start <= end <= totalLines, and read_section on a listed name
\* returns end - start + 1 lines of the file
C30_RangeBounds ==
  /\ GetIndexDone =>
       \A i \in 1..Len(out.sections) :
         /\ 1 <= out.sections[i].line
         /\ out.sections[i].line <= out.sections[i].end
         /\ out.sections[i].end <= out.totalLines
  /\ (pc \in {"read_section", "read_section_v21"} /\ "content" \in DOMAIN out) =>
       Len(Slice(before, out.lineStart, out.lineEnd)) = out.lineEnd - out.lineStart + 1

====
